---- MODULE Spec2Model ----
(***************************************************************************)
(* Model of the transcription core of laviprog/speech-transcription:       *)
(*   - SpeechTranscription (transcription/speech_transcription.py): the     *)
(*     two model caches, startup preload, get-or-load, the per-request      *)
(*     pipeline separate -> load audio -> decode -> align, and clean();     *)
(*   - SpeechTranscriptionService (transcription/services.py): the tuple    *)
(*     unpacking of the engine's return value and the three formatters;     *)
(*   - lifespan (lifecycle.py): construction at startup, clean at shutdown. *)
(* Calls into third-party libraries (load_model, load_align_model,          *)
(* load_audio, Separator.separate, asr.transcribe, align) are inputs: each  *)
(* either returns or raises, and what it raises is a RuntimeError           *)
(* ("runtime") or some other Exception ("other"), the only distinction the  *)
(* code's except clauses make.                                              *)
(***************************************************************************)
EXTENDS Integers, Sequences, FiniteSets, TLC

\* ---------------------------------------------------------------- bounds
\* number of transcribe requests one run serves
MaxRequests == 2
\* longest segment list a decode or an alignment returns
MaxSegs == 2
\* longest word-segment list an alignment returns
MaxWords == 1
\* longest init_asr_models list the constructor is given
MaxPreload == 2

\* ------------------------------------------------------------ identities
\* transcription/enums.py
Models == {"small", "medium", "turbo"}
Languages == {"ru", "en"}
\* a language code the decode step can report and whisperx has an alignment
\* model for, outside the Language enum
OtherLanguage == "de"
\* the strings that can be keys of the alignment cache
LanguageCodes == Languages \cup {OtherLanguage}
LanguageValues == <<"ru", "en">>
ResultFormats == {"text", "srt", "full"}
\* a format value outside the enumeration, as a direct caller can pass
OtherFormat == "other"
\* Python's None for the optional language hint
NoLanguage == "none"

\* request handlers; the route is an async def that calls the service
\* synchronously, so Spec runs one request at a time
Procs == {"r1", "r2"}
SeqProcs == {"r1"}

\* outcome of a call into a third-party library
Outcomes == {"ok", "runtime", "other"}

\* an absent dict entry / no pipeline handle
NoInst == 0

\* ------------------------------------------------------------------ text
\* a str is a sequence of one-character strings
Space == " "
TextHi == <<" ", "h", "i", " ">>
TextThere == <<"t", "h", "e", "r", "e">>

RECURSIVE LStrip(_)
LStrip(s) == IF s # <<>> /\ Head(s) = Space THEN LStrip(Tail(s)) ELSE s

RECURSIVE RStrip(_)
RStrip(s) ==
    IF s # <<>> /\ s[Len(s)] = Space THEN RStrip(SubSeq(s, 1, Len(s) - 1)) ELSE s

\* str.strip()
Strip(s) == LStrip(RStrip(s))

\* " ".join(parts)
RECURSIVE Join(_)
Join(parts) ==
    IF parts = <<>> THEN <<>>
    ELSE IF Len(parts) = 1 THEN parts[1]
    ELSE parts[1] \o <<Space>> \o Join(Tail(parts))

\* -------------------------------------------------------------- segments
\* whisperx SingleSegment dicts, as the decode step returns them
SegHi == [text |-> TextHi, start |-> 0, end |-> 1]
SegThere == [text |-> TextThere, start |-> 1, end |-> 2]
SegPool == {SegHi, SegThere}

\* whisperx SingleWordSegment dicts
WordHi == [word |-> <<"h", "i">>, start |-> 0, end |-> 1, score |-> 9]
WordPool == {WordHi}

SeqsUpTo(S, n) == UNION {[1..k -> S] : k \in 0..n}

SegLists == SeqsUpTo(SegPool, MaxSegs)
WordLists == SeqsUpTo(WordPool, MaxWords)

\* ------------------------------------------------------------------ state
VARIABLES
    phase,        \* "boot" | "serving" | "down" | "boot_failed" (lifespan)
    init_asr_models, \* the constructor's preload list: None, or a list
    bootPlan,     \* the loads _load_models has still to make, in order
    sep_loaded,   \* the separation model is loaded
    asr_cache,    \* __asr_cache: model id -> pipeline handle (NoInst: absent)
    align_cache,  \* __align_cache: language code -> handle (NoInst: absent)
    nextInst,     \* the handle the next successful load creates
    nreq,         \* requests started so far
    pc,           \* position of each request handler
    args,         \* the request context
    sepFiles,     \* separated files of the request that exist on disk
    work,         \* locals of the engine: asr handle, decode result
    ret,          \* what SpeechTranscription.transcribe returned
    resp,         \* what SpeechTranscriptionService.transcribe returned
    err,          \* the exception that ended the request
    obs,          \* per request: what happened during it (history)
    evicted,      \* handles dropped by clean() (history)
    got           \* per cache and key: handle returned by a get since the
                  \* last clean(), and the loads those gets made (history)

vars == <<phase, init_asr_models, bootPlan, sep_loaded, asr_cache, align_cache, nextInst, nreq,
          pc, args, sepFiles, work, ret, resp, err, obs, evicted, got>>

cacheVars == <<asr_cache, align_cache, nextInst, evicted, got>>
bootVars == <<phase, init_asr_models, bootPlan, sep_loaded>>

EmptyAsr == [m \in Models |-> NoInst]
EmptyAlign == [l \in LanguageCodes |-> NoInst]

Keys(cache) == {k \in DOMAIN cache : cache[k] # NoInst}
Handles(cache) == {cache[k] : k \in Keys(cache)}

NoErr == [type |-> "none", at |-> "none"]
Raise(type, at) == [type |-> type, at |-> at]

NoArgs == [model |-> "small", language |-> NoLanguage, format |-> "text",
           align_mode |-> FALSE, preprocess |-> FALSE]
\* the local align_result of transcribe: None, or the alignment output
NoAlignResult == [some |-> FALSE, segments |-> <<>>, word_segments |-> <<>>]
AlignResult(asegs, words) == [some |-> TRUE, segments |-> asegs, word_segments |-> words]

NoWork == [asr |-> NoInst, segs |-> <<>>, lang |-> NoLanguage,
           align_result |-> NoAlignResult]
NoRet == [kind |-> "none", segs |-> <<>>, words |-> <<>>]
NoResp == [kind |-> "none", text |-> <<>>, segments |-> <<>>,
           hasWords |-> FALSE, words |-> <<>>]
NoObs == [asr0 |-> EmptyAsr, align0 |-> EmptyAlign, cleaned |-> FALSE,
          loadFailed |-> {}, asrTries |-> 0, alignTries |-> 0,
          align |-> "no", sepMade |-> FALSE, raised |-> NoErr]
NoGets == [inst |-> NoInst, loads |-> 0, n |-> 0, same |-> TRUE]
NoGot == [asr |-> [m \in Models |-> NoGets], align |-> [l \in LanguageCodes |-> NoGets]]

\* ------------------------------------------------------------- startup
\* init_asr_models: None (given = FALSE) or a list of models
NoList == [given |-> FALSE, models |-> <<>>]
ListOf(models) == [given |-> TRUE, models |-> models]

\* init_asr_models as lifespan passes it: [Model.SMALL]
PreloadLists == {ListOf(<<"small">>)}

\* init_asr_models as a caller of the constructor may pass it
CtorLists == {NoList} \cup {ListOf(l) : l \in SeqsUpTo(Models, MaxPreload)}

\* `asr_models or [Model.SMALL]`: None and the empty list are both falsy
ModelsToLoad(asr_models) ==
    IF asr_models.given /\ asr_models.models # <<>>
    THEN asr_models.models ELSE <<"small">>

\* mutant: _load_models preloads no alignment model
BootPlanOf_noAlign(asr_models) ==
    <<[what |-> "sep", key |-> "sep"]>>
    \o [i \in 1..Len(ModelsToLoad(asr_models)) |->
            [what |-> "asr", key |-> ModelsToLoad(asr_models)[i]]]

\* the order of loads in _load_models
BootPlanOf(asr_models) ==
    <<[what |-> "sep", key |-> "sep"]>>
    \o [i \in 1..Len(LanguageValues) |-> [what |-> "align", key |-> LanguageValues[i]]]
    \o [i \in 1..Len(ModelsToLoad(asr_models)) |->
            [what |-> "asr", key |-> ModelsToLoad(asr_models)[i]]]

InitWith(lists) ==
    /\ phase = "boot"
    /\ init_asr_models \in lists
    /\ bootPlan = BootPlanOf(init_asr_models)
    /\ sep_loaded = FALSE
    /\ asr_cache = EmptyAsr
    /\ align_cache = EmptyAlign
    /\ nextInst = 1
    /\ nreq = 0
    /\ pc = [r \in Procs |-> "idle"]
    /\ args = [r \in Procs |-> NoArgs]
    /\ sepFiles = [r \in Procs |-> {}]
    /\ work = [r \in Procs |-> NoWork]
    /\ ret = [r \in Procs |-> NoRet]
    /\ resp = [r \in Procs |-> NoResp]
    /\ err = [r \in Procs |-> NoErr]
    /\ obs = [r \in Procs |-> NoObs]
    /\ evicted = {}
    /\ got = NoGot

\* the application: lifespan constructs the engine
Init == InitWith(PreloadLists)

\* the constructor called with any preload list
InitCtor == InitWith(CtorLists)

\* ----------------------------------------------------------- the caches
\* `cache[key]` raises KeyError
KeyError(cache, key) == cache[key] = NoInst

\* mutant: the membership test never asks for a load
Missing_never(cache, key) == FALSE

\* mutant: the membership test is dropped and every get loads
Missing_always(cache, key) == TRUE

\* `key not in cache` of _get_asr / _get_align
Missing(cache, key) == cache[key] = NoInst

\* self.__asr_cache[model] = load_model(...)   /   self.__align_cache[lang] = (...)
Store(cache, key, inst) == [cache EXCEPT ![key] = inst]

\* dict.clear()
Cleared(cache) == [k \in DOMAIN cache |-> NoInst]

\* mutant: clean() forgets the alignment cache
clean_keepAlign ==
    /\ asr_cache' = Cleared(asr_cache)
    /\ align_cache' = align_cache
    /\ evicted' = evicted \cup Handles(asr_cache)
    /\ got' = [got EXCEPT !.asr = NoGot.asr]

\* SpeechTranscription.clean: both dicts are cleared
clean ==
    /\ asr_cache' = Cleared(asr_cache)
    /\ align_cache' = Cleared(align_cache)
    /\ evicted' = evicted \cup Handles(asr_cache) \cup Handles(align_cache)
    /\ got' = NoGot

\* _load_asr / _load_align with the third-party load returning: the new
\* handle is stored under the key
LoadOk(which, key) ==
    /\ nextInst' = nextInst + 1
    /\ IF which = "asr"
       THEN /\ asr_cache' = Store(asr_cache, key, nextInst)
            /\ align_cache' = align_cache
       ELSE /\ align_cache' = Store(align_cache, key, nextInst)
            /\ asr_cache' = asr_cache
    /\ evicted' = evicted
    /\ got' = [got EXCEPT ![which][key].loads = @ + 1]

\* _load_models, one load per step; a failing load ends construction
BootStep ==
    /\ phase = "boot"
    /\ bootPlan # <<>>
    /\ LET step == Head(bootPlan) IN
       \E out \in {"ok", "fail"} :
          IF out = "ok"
          THEN /\ bootPlan' = Tail(bootPlan)
               /\ phase' = IF Tail(bootPlan) = <<>> THEN "serving" ELSE "boot"
               /\ IF step.what = "sep"
                  THEN /\ sep_loaded' = TRUE
                       /\ UNCHANGED cacheVars
                  ELSE /\ sep_loaded' = sep_loaded
                       /\ LoadOk(step.what, step.key)
          ELSE /\ phase' = "boot_failed"
               /\ UNCHANGED <<bootPlan, sep_loaded, cacheVars>>
    /\ UNCHANGED <<init_asr_models, nreq, pc, args, sepFiles, work, ret, resp, err, obs>>

\* mutant: the shutdown hook does not call clean()
Shutdown_noclean ==
    /\ phase = "serving"
    /\ \A r \in Procs : pc[r] = "idle"
    /\ phase' = "down"
    /\ UNCHANGED <<init_asr_models, bootPlan, sep_loaded, cacheVars, nreq, pc, args,
                   sepFiles, work, ret, resp, err, obs>>

\* lifespan after the yield: transcription_service.clean()
Shutdown ==
    /\ phase = "serving"
    /\ \A r \in Procs : pc[r] = "idle"
    /\ phase' = "down"
    /\ clean
    /\ UNCHANGED <<init_asr_models, bootPlan, sep_loaded, nextInst, nreq, pc, args,
                   sepFiles, work, ret, resp, err, obs>>

\* ------------------------------------------------- the engine's results
\* the exception class an outcome stands for
ErrType(out) == IF out = "runtime" THEN "RuntimeError" ELSE "Exception"

\* transcribe line 253: `return transcription_result["segments"]`
ReturnSegments(segs) == [kind |-> "list", segs |-> segs, words |-> <<>>]

\* transcribe lines 243-250: the alignment output's segments, text stripped
NormalizeSegments(segs) ==
    [i \in 1..Len(segs) |->
        [text |-> Strip(segs[i].text), start |-> segs[i].start, end |-> segs[i].end]]

\* mutant: the alignment output's segments are returned as they are
ReturnAligned_unstripped(asegs, words) ==
    [kind |-> "tuple", segs |-> asegs, words |-> words]

\* transcribe line 251: `return transcription_result["segments"], align_result["word_segments"]`
ReturnAligned(asegs, words) ==
    [kind |-> "tuple", segs |-> NormalizeSegments(asegs), words |-> words]

\* ---------------------------------------------------------- the service
\* services.py 43-58. With align_mode the return value is unpacked into two
\* names: a 2-tuple unpacks as meant; a list (the engine's unaligned return)
\* unpacks only when it has exactly two elements, and then `segments` is the
\* first segment dict and `words` the second; any other length raises
\* ValueError. Without align_mode the value is taken as the segments.
Unpack(align_mode, rv) ==
    IF ~align_mode
    THEN [ok |-> TRUE, segKind |-> IF rv.kind = "tuple" THEN "tuple" ELSE "list",
          segs |-> rv.segs, wordsGiven |-> FALSE, words |-> <<>>]
    ELSE IF rv.kind = "tuple"
    THEN [ok |-> TRUE, segKind |-> "list", segs |-> rv.segs,
          wordsGiven |-> TRUE, words |-> rv.words]
    ELSE IF Len(rv.segs) = 2
    THEN [ok |-> TRUE, segKind |-> "dict", segs |-> <<rv.segs[1]>>,
          wordsGiven |-> TRUE, words |-> <<rv.segs[2]>>]
    ELSE [ok |-> FALSE, segKind |-> "list", segs |-> <<>>,
          wordsGiven |-> FALSE, words |-> <<>>]

\* mutant: the segments' texts are joined without being stripped
to_text_unstripped(segments) ==
    Strip(Join([i \in 1..Len(segments) |-> segments[i].text]))

\* _to_text
to_text(segments) ==
    Strip(Join([i \in 1..Len(segments) |-> Strip(segments[i].text)]))

\* mutant: enumerate(segments) without start=1
to_srt_fromZero(segments) ==
    [i \in 1..Len(segments) |->
        [number |-> i - 1, text |-> Strip(segments[i].text),
         start |-> segments[i].start, end |-> segments[i].end]]

\* _to_srt
to_srt(segments) ==
    [i \in 1..Len(segments) |->
        [number |-> i, text |-> Strip(segments[i].text),
         start |-> segments[i].start, end |-> segments[i].end]]

\* WordSegment(**word)
ToWordSegment(w) ==
    [word |-> w.word, start |-> w.start, end |-> w.end, score |-> w.score]

\* mutant: the `if words else None` guard is dropped, `words or []` is
\* converted, so a response without alignment carries a word list
FullWords_list(wordsGiven, words) ==
    [has |-> TRUE,
     items |-> IF wordsGiven
               THEN [i \in 1..Len(words) |-> ToWordSegment(words[i])] ELSE <<>>]

\* services.py 71: `[WordSegment(**word) for word in words] if words else None`
FullWords(wordsGiven, words) ==
    IF wordsGiven /\ words # <<>>
    THEN [has |-> TRUE, items |-> [i \in 1..Len(words) |-> ToWordSegment(words[i])]]
    ELSE [has |-> FALSE, items |-> <<>>]

\* services.py 60-74: the match on format_result, for segments that are a
\* list of segment dicts. Iterating a segment dict instead yields its keys,
\* and indexing a key with "text" raises TypeError (FormatError).
FormatResult(format, u) ==
    IF format = "text"
    THEN [kind |-> "text", text |-> to_text(u.segs), segments |-> <<>>,
          hasWords |-> FALSE, words |-> <<>>]
    ELSE IF format = "srt"
    THEN [kind |-> "srt", text |-> <<>>, segments |-> to_srt(u.segs),
          hasWords |-> FALSE, words |-> <<>>]
    ELSE [kind |-> "full", text |-> <<>>, segments |-> to_srt(u.segs),
          hasWords |-> FullWords(u.wordsGiven, u.words).has,
          words |-> FullWords(u.wordsGiven, u.words).items]

FormatError(format, u) ==
    IF ~u.ok THEN "ValueError"
    ELSE IF format \notin ResultFormats THEN "ValueError"
    ELSE IF u.segKind # "list" THEN "TypeError"
    ELSE "none"

\* ------------------------------------------------------ request steps
Fail(r, e) ==
    /\ pc' = [pc EXCEPT ![r] = "failed"]
    /\ err' = [err EXCEPT ![r] = e]

Goto(r, where) ==
    /\ pc' = [pc EXCEPT ![r] = where]
    /\ err' = err

\* a get returned handle `inst` for `key`
NoteGet(which, key, inst) ==
    LET g == got[which][key] IN
    [got EXCEPT ![which][key] =
        [inst |-> inst,
         loads |-> g.loads,
         n |-> IF g.n < 2 THEN g.n + 1 ELSE 2,
         same |-> g.same /\ (g.n = 0 \/ g.inst = inst)]]

\* the route hands a request to SpeechTranscriptionService.transcribe
StartRequest(r) ==
    /\ phase = "serving"
    /\ pc[r] = "idle"
    /\ nreq < MaxRequests
    /\ nreq' = nreq + 1
    /\ \E m \in Models, l \in Languages \cup {NoLanguage},
          f \in ResultFormats \cup {OtherFormat}, a \in BOOLEAN, p \in BOOLEAN :
          /\ args' = [args EXCEPT ![r] = [model |-> m, language |-> l, format |-> f,
                                          align_mode |-> a, preprocess |-> p]]
          /\ pc' = [pc EXCEPT ![r] = IF p THEN "separate" ELSE "load_audio"]
    /\ sepFiles' = [sepFiles EXCEPT ![r] = {}]
    /\ work' = [work EXCEPT ![r] = NoWork]
    /\ ret' = [ret EXCEPT ![r] = NoRet]
    /\ resp' = [resp EXCEPT ![r] = NoResp]
    /\ err' = [err EXCEPT ![r] = NoErr]
    /\ obs' = [obs EXCEPT ![r] = [NoObs EXCEPT !.asr0 = asr_cache,
                                               !.align0 = align_cache]]
    /\ UNCHANGED <<bootVars, cacheVars>>

\* transcribe 210-217: the separator writes its two output files
Separate(r) ==
    /\ pc[r] = "separate"
    /\ \E out \in Outcomes :
          IF out = "ok"
          THEN /\ sepFiles' = [sepFiles EXCEPT ![r] = {"Vocals", "Instrumental"}]
               /\ obs' = [obs EXCEPT ![r].sepMade = TRUE]
               /\ Goto(r, "load_audio")
          ELSE /\ Fail(r, Raise(ErrType(out), "separate"))
               /\ obs' = [obs EXCEPT ![r].raised = Raise(ErrType(out), "separate")]
               /\ UNCHANGED sepFiles
    /\ UNCHANGED <<bootVars, cacheVars, nreq, args, work, ret, resp>>

\* the files left once the os.remove loop of transcribe 221-225 has run
AfterRemoval(files) == {}

\* transcribe 218-227: load_audio, and only after it returned the removal
\* of the separated files
LoadAudio(r) ==
    /\ pc[r] = "load_audio"
    /\ \E out \in Outcomes :
          IF out = "ok"
          THEN /\ sepFiles' = [sepFiles EXCEPT ![r] = AfterRemoval(sepFiles[r])]
               /\ Goto(r, "get_asr")
               /\ obs' = obs
          ELSE /\ Fail(r, Raise(ErrType(out), "load_audio"))
               /\ obs' = [obs EXCEPT ![r].raised = Raise(ErrType(out), "load_audio")]
               /\ UNCHANGED sepFiles
    /\ UNCHANGED <<bootVars, cacheVars, nreq, args, work, ret, resp>>

\* _get_asr 109: the membership test
GetAsr(r) ==
    /\ pc[r] = "get_asr"
    /\ Goto(r, IF Missing(asr_cache, args[r].model) THEN "load_asr" ELSE "read_asr")
    /\ UNCHANGED <<bootVars, cacheVars, nreq, args, sepFiles, work, ret, resp, obs>>

\* mutant: a failing _load_asr leaves an entry for the key behind
LoadAsr_storesOnFailure(r) ==
    /\ pc[r] = "load_asr"
    /\ \E out \in Outcomes :
          IF out = "ok"
          THEN /\ LoadOk("asr", args[r].model)
               /\ obs' = [obs EXCEPT ![r].asrTries = @ + 1]
               /\ Goto(r, "read_asr")
          ELSE /\ obs' = [obs EXCEPT ![r].asrTries = @ + 1,
                                     ![r].loadFailed = @ \cup {"asr"},
                                     ![r].raised = Raise(ErrType(out), "load_asr")]
               /\ Fail(r, Raise(ErrType(out), "load_asr"))
               /\ LoadOk("asr", args[r].model)
    /\ UNCHANGED <<bootVars, nreq, args, sepFiles, work, ret, resp>>

\* _get_asr 110 -> _load_asr: outside any try of the engine, so every
\* failure propagates
LoadAsr(r) ==
    /\ pc[r] = "load_asr"
    /\ \E out \in Outcomes :
          IF out = "ok"
          THEN /\ LoadOk("asr", args[r].model)
               /\ obs' = [obs EXCEPT ![r].asrTries = @ + 1]
               /\ Goto(r, "read_asr")
          ELSE /\ obs' = [obs EXCEPT ![r].asrTries = @ + 1,
                                     ![r].loadFailed = @ \cup {"asr"},
                                     ![r].raised = Raise(ErrType(out), "load_asr")]
               /\ Fail(r, Raise(ErrType(out), "load_asr"))
               /\ UNCHANGED cacheVars
    /\ UNCHANGED <<bootVars, nreq, args, sepFiles, work, ret, resp>>

\* _get_asr 111: `return self.__asr_cache[model.value]`
ReadAsr(r) ==
    /\ pc[r] = "read_asr"
    /\ IF KeyError(asr_cache, args[r].model)
       THEN /\ Fail(r, Raise("KeyError", "read_asr"))
            /\ UNCHANGED <<work, got>>
       ELSE /\ work' = [work EXCEPT ![r].asr = asr_cache[args[r].model]]
            /\ got' = NoteGet("asr", args[r].model, asr_cache[args[r].model])
            /\ Goto(r, "decode")
    /\ UNCHANGED <<bootVars, asr_cache, align_cache, nextInst, evicted, nreq, args,
                   sepFiles, ret, resp, obs>>

\* mutant: the RuntimeError is raised again without the call to clean()
EvictAndRaise_noclean(r, at) ==
    /\ UNCHANGED <<asr_cache, align_cache, evicted, got>>
    /\ obs' = [obs EXCEPT ![r].raised = Raise("RuntimeError", at)]
    /\ Fail(r, Raise("RuntimeError", at))

\* the except RuntimeError branches (_transcribe 162-168, _align 190-193):
\* clean(), then the error is raised again
EvictAndRaise(r, at) ==
    /\ clean
    /\ obs' = [obs EXCEPT ![r].cleaned = TRUE,
                          ![r].raised = Raise("RuntimeError", at)]
    /\ Fail(r, Raise("RuntimeError", at))

\* mutant: the decode step reports a detected language whatever the hint
ReportedLanguages_detected(language) == LanguageCodes

\* transcription_result["language"] (transcribe 239): with a language hint
\* the decode step reports the hint, without one the language it detected
ReportedLanguages(language) ==
    IF language = NoLanguage THEN LanguageCodes ELSE {language}

\* _transcribe 147-173. The log call of line 150 reads language.value before
\* the try: with no language hint it raises AttributeError and the decode
\* call is never made.
Decode(r) ==
    /\ pc[r] = "decode"
    /\ IF args[r].language = NoLanguage
       THEN /\ Fail(r, Raise("AttributeError", "log"))
            /\ UNCHANGED <<asr_cache, align_cache, evicted, got, work, ret, obs>>
       ELSE \E out \in Outcomes :
          CASE out = "ok" ->
                 \E segs \in SegLists, lg \in ReportedLanguages(args[r].language) :
                    /\ work' = [work EXCEPT ![r].segs = segs,
                                            ![r].lang = lg]
                    /\ IF args[r].align_mode
                       THEN /\ Goto(r, "get_align")
                            /\ ret' = ret
                       ELSE /\ Goto(r, "format")
                            /\ ret' = [ret EXCEPT ![r] = ReturnSegments(segs)]
                    /\ UNCHANGED <<asr_cache, align_cache, evicted, got, obs>>
            [] out = "runtime" ->
                 /\ EvictAndRaise(r, "decode")
                 /\ UNCHANGED <<work, ret>>
            [] out = "other" ->
                 /\ Fail(r, Raise("Exception", "decode"))
                 /\ obs' = [obs EXCEPT ![r].raised = Raise("Exception", "decode")]
                 /\ UNCHANGED <<asr_cache, align_cache, evicted, got, work, ret>>
    /\ UNCHANGED <<bootVars, nextInst, nreq, args, sepFiles, resp>>

\* mutant: no `except Exception` branch, the alignment error propagates
Fallback_raise(r, how) ==
    /\ ret' = ret
    /\ obs' = [obs EXCEPT ![r].align = how,
                          ![r].raised = Raise("Exception", "align")]
    /\ Fail(r, Raise("Exception", "align"))

\* _align 194-196 and transcribe 242, 253: _align returns None and the
\* engine returns the decode step's segments
Fallback(r, how) ==
    /\ ret' = [ret EXCEPT ![r] = ReturnSegments(work[r].segs)]
    /\ obs' = [obs EXCEPT ![r].align = how,
                          ![r].raised = Raise(IF how = "key_error" THEN "KeyError"
                                              ELSE "Exception", "align")]
    /\ Goto(r, "format")

\* _get_align 118, called inside the try of _align
GetAlign(r) ==
    /\ pc[r] = "get_align"
    /\ Goto(r, IF Missing(align_cache, work[r].lang) THEN "load_align" ELSE "read_align")
    /\ UNCHANGED <<bootVars, cacheVars, nreq, args, sepFiles, work, ret, resp, obs>>

\* _get_align 119 -> _load_align, inside the try of _align: a RuntimeError
\* evicts and is raised, any other failure is caught and becomes the fallback
LoadAlign(r) ==
    /\ pc[r] = "load_align"
    /\ \E out \in Outcomes :
          CASE out = "ok" ->
                 /\ LoadOk("align", work[r].lang)
                 /\ obs' = [obs EXCEPT ![r].alignTries = @ + 1]
                 /\ Goto(r, "read_align")
                 /\ ret' = ret
            [] out = "runtime" ->
                 /\ clean
                 /\ obs' = [obs EXCEPT ![r].alignTries = @ + 1,
                                       ![r].loadFailed = @ \cup {"align"},
                                       ![r].cleaned = TRUE,
                                       ![r].raised = Raise("RuntimeError", "load_align")]
                 /\ Fail(r, Raise("RuntimeError", "load_align"))
                 /\ UNCHANGED <<nextInst, ret>>
            [] out = "other" ->
                 /\ ret' = [ret EXCEPT ![r] = ReturnSegments(work[r].segs)]
                 /\ obs' = [obs EXCEPT ![r].alignTries = @ + 1,
                                       ![r].loadFailed = @ \cup {"align"},
                                       ![r].align = "load_failed",
                                       ![r].raised = Raise("Exception", "load_align")]
                 /\ Goto(r, "format")
                 /\ UNCHANGED cacheVars
    /\ UNCHANGED <<bootVars, nreq, args, sepFiles, work, resp>>

\* _get_align 120: `return self.__align_cache[lang_code]`; a KeyError here
\* is inside the try of _align and is no RuntimeError
ReadAlign(r) ==
    /\ pc[r] = "read_align"
    /\ IF KeyError(align_cache, work[r].lang)
       THEN /\ Fallback(r, "key_error")
            /\ got' = got
       ELSE /\ got' = NoteGet("align", work[r].lang, align_cache[work[r].lang])
            /\ Goto(r, "align")
            /\ UNCHANGED <<ret, obs>>
    /\ UNCHANGED <<bootVars, asr_cache, align_cache, nextInst, evicted, nreq, args,
                   sepFiles, work, resp>>

\* _align 183-196 and transcribe 242-253: the forced-alignment call; on
\* success transcription_result["segments"] is overwritten (line 243)
Align(r) ==
    /\ pc[r] = "align"
    /\ \E out \in Outcomes :
          CASE out = "ok" ->
                 \E asegs \in SegLists, words \in WordLists :
                    /\ work' = [work EXCEPT ![r].segs = NormalizeSegments(asegs),
                                            ![r].align_result = AlignResult(asegs, words)]
                    /\ ret' = [ret EXCEPT ![r] = ReturnAligned(asegs, words)]
                    /\ obs' = [obs EXCEPT ![r].align = "ok"]
                    /\ Goto(r, "format")
                    /\ UNCHANGED cacheVars
            [] out = "runtime" ->
                 /\ EvictAndRaise(r, "align")
                 /\ UNCHANGED <<nextInst, ret, work>>
            [] out = "other" ->
                 /\ Fallback(r, "failed")
                 /\ UNCHANGED <<cacheVars, work>>
    /\ UNCHANGED <<bootVars, nreq, args, sepFiles, resp>>

\* SpeechTranscriptionService.transcribe 42-74, once the engine has returned
Format(r) ==
    /\ pc[r] = "format"
    /\ LET u == Unpack(args[r].align_mode, ret[r])
           e == FormatError(args[r].format, u) IN
       IF e # "none"
       THEN /\ Fail(r, Raise(e, "format"))
            /\ resp' = resp
       ELSE /\ resp' = [resp EXCEPT ![r] = FormatResult(args[r].format, u)]
            /\ Goto(r, "done")
    /\ UNCHANGED <<bootVars, cacheVars, nreq, args, sepFiles, work, ret, obs>>

\* the response, or the exception, leaves the route handler: the request
\* context and the locals are gone
Respond(r) ==
    /\ pc[r] \in {"done", "failed"}
    /\ pc' = [pc EXCEPT ![r] = "idle"]
    /\ args' = [args EXCEPT ![r] = NoArgs]
    /\ sepFiles' = [sepFiles EXCEPT ![r] = {}]
    /\ work' = [work EXCEPT ![r] = NoWork]
    /\ ret' = [ret EXCEPT ![r] = NoRet]
    /\ resp' = [resp EXCEPT ![r] = NoResp]
    /\ err' = [err EXCEPT ![r] = NoErr]
    /\ obs' = [obs EXCEPT ![r] = NoObs]
    /\ UNCHANGED <<bootVars, cacheVars, nreq>>

Step(r) ==
    \/ StartRequest(r)
    \/ Respond(r)
    \/ Separate(r)
    \/ LoadAudio(r)
    \/ GetAsr(r)
    \/ LoadAsr(r)
    \/ ReadAsr(r)
    \/ Decode(r)
    \/ GetAlign(r)
    \/ LoadAlign(r)
    \/ ReadAlign(r)
    \/ Align(r)
    \/ Format(r)

Next ==
    \/ BootStep
    \/ Shutdown
    \/ \E r \in SeqProcs : Step(r)

Spec == Init /\ [][Next]_vars

\* construction alone, with any preload list, and the shutdown after it
\* the arguments of the requests of the concurrent specification: a model the
\* preload did not load, and one language
ConcModels == {"medium"}
ConcLanguages == {"ru"}
ConcFormats == {"text"}

\* SpeechTranscription.transcribe entered by a caller that shares the engine
\* with other callers running at the same time
StartRequestConc(r) ==
    /\ phase = "serving"
    /\ pc[r] = "idle"
    /\ nreq < MaxRequests
    /\ nreq' = nreq + 1
    /\ \E m \in ConcModels, l \in ConcLanguages, f \in ConcFormats,
          a \in BOOLEAN, p \in BOOLEAN :
          /\ args' = [args EXCEPT ![r] = [model |-> m, language |-> l, format |-> f,
                                          align_mode |-> a, preprocess |-> p]]
          /\ pc' = [pc EXCEPT ![r] = IF p THEN "separate" ELSE "load_audio"]
    /\ sepFiles' = [sepFiles EXCEPT ![r] = {}]
    /\ work' = [work EXCEPT ![r] = NoWork]
    /\ ret' = [ret EXCEPT ![r] = NoRet]
    /\ resp' = [resp EXCEPT ![r] = NoResp]
    /\ err' = [err EXCEPT ![r] = NoErr]
    /\ obs' = [obs EXCEPT ![r] = [NoObs EXCEPT !.asr0 = asr_cache,
                                               !.align0 = align_cache]]
    /\ UNCHANGED <<bootVars, cacheVars>>

\* the steps of one caller of the engine; the engine takes no lock, so the
\* steps of two callers interleave freely
StepConc(r) ==
    \/ StartRequestConc(r)
    \/ Respond(r)
    \/ Separate(r)
    \/ LoadAudio(r)
    \/ GetAsr(r)
    \/ LoadAsr(r)
    \/ ReadAsr(r)
    \/ Decode(r)
    \/ GetAlign(r)
    \/ LoadAlign(r)
    \/ ReadAlign(r)
    \/ Align(r)
    \/ Format(r)

NextConc ==
    \/ BootStep
    \/ Shutdown
    \/ \E r \in Procs : StepConc(r)

\* the engine shared by callers on several threads
SpecConc == Init /\ [][NextConc]_vars

NextCtor ==
    \/ BootStep
    \/ Shutdown

SpecCtor == InitCtor /\ [][NextCtor]_vars

\* ================================================================ claims
CachesEmpty == Keys(asr_cache) = {} /\ Keys(align_cache) = {}

Ended(r) == pc[r] \in {"done", "failed"}

\* the request's decode call or forced-alignment call raised a RuntimeError
ResourceFailure(r) ==
    /\ obs[r].raised.type = "RuntimeError"
    /\ obs[r].raised.at \in {"decode", "align"}

\* C1 -- resource-exhaustion recovery: once the decode call or the
\* forced-alignment call of a request has raised a RuntimeError, the request
\* has failed with that very error, nothing was returned, and both caches
\* are empty when the error reaches the caller.
C1_ResourceRecovery ==
    \A r \in Procs :
        ResourceFailure(r) =>
            /\ pc[r] = "failed"
            /\ err[r] = obs[r].raised
            /\ ret[r] = NoRet
            /\ resp[r] = NoResp
            /\ CachesEmpty

\* C1 witness: an alignment call raised a RuntimeError in a request that
\* started with both caches populated.
C1_Witness ==
    \E r \in Procs :
        /\ pc[r] = "failed"
        /\ obs[r].raised = Raise("RuntimeError", "align")
        /\ Keys(obs[r].asr0) # {}
        /\ Keys(obs[r].align0) # {}

\* C2 -- alignment fallback at the engine: when the forced-alignment call
\* raised an error that is no RuntimeError, the engine raised nothing and
\* returned the decode step's segment list unchanged, as a bare list with no
\* word list.
C2_AlignFallback ==
    \A r \in Procs :
        obs[r].align = "failed" =>
            /\ pc[r] \in {"format", "done", "failed"}
            /\ err[r].at \in {"none", "format"}
            /\ ret[r] = [kind |-> "list", segs |-> work[r].segs, words |-> <<>>]

\* C2 witness: the engine has just returned after a failed alignment of a
\* two-segment decode result.
C2_Witness ==
    \E r \in Procs :
        /\ pc[r] = "format"
        /\ obs[r].align = "failed"
        /\ work[r].segs = <<SegHi, SegThere>>
        /\ ret[r].segs = <<SegHi, SegThere>>

\* C3 -- end-to-end degradation: a request with align_mode whose alignment
\* failed with a non-resource error, in one of the three formats, ends
\* successfully with the formatted unaligned segments and no words.
C3_DegradesEndToEnd ==
    \A r \in Procs :
        (/\ Ended(r)
         /\ obs[r].align = "failed"
         /\ args[r].format \in ResultFormats) =>
            /\ pc[r] = "done"
            /\ resp[r] = FormatResult(args[r].format,
                                      [ok |-> TRUE, segKind |-> "list",
                                       segs |-> work[r].segs,
                                       wordsGiven |-> FALSE, words |-> <<>>])
            /\ ~resp[r].hasWords

\* C4 -- a request without a language hint fails only when one of the calls
\* it makes raised; the missing hint is never itself the cause.
C4_NoHintAccepted ==
    \A r \in Procs :
        (pc[r] = "failed" /\ args[r].language = NoLanguage) =>
            /\ obs[r].raised # NoErr
            /\ err[r] = obs[r].raised

\* C5 -- preprocessing cleanup: when the separator produced its files, none
\* of them exists once the request has ended.
C5_SeparatedFilesRemoved ==
    \A r \in Procs :
        (Ended(r) /\ obs[r].sepMade) => sepFiles[r] = {}

GotKeys == [asr |-> Models, align |-> LanguageCodes]

\* C6 -- cache idempotence: when two gets of the same key have returned
\* with no clean() in between, they returned the same handle and the key
\* was loaded exactly once since the last clean().
C6_CacheIdempotence ==
    \A w \in {"asr", "align"} : \A k \in GotKeys[w] :
        got[w][k].n >= 2 => (got[w][k].same /\ got[w][k].loads = 1)

\* C6 witness: two requests got the medium model, which only a lazy load
\* can have put in the cache, and two gets of a language have returned.
C6_Witness ==
    /\ got.asr["medium"].n >= 2
    /\ \E l \in Languages : got.align[l].n >= 2

\* C7 -- eviction clears state: after clean() both caches are empty (in the
\* failing request that called it, and after shutdown); no cached or
\* returned handle is an evicted one, and a get that returned after a
\* clean() rests on a load made after it.
C7_EvictionClears ==
    /\ phase = "down" => CachesEmpty
    /\ \A r \in Procs : obs[r].cleaned => (pc[r] = "failed" /\ CachesEmpty)
    /\ (Handles(asr_cache) \cup Handles(align_cache)) \cap evicted = {}
    /\ \A w \in {"asr", "align"} : \A k \in GotKeys[w] :
          got[w][k].n >= 1 =>
              /\ got[w][k].inst \notin evicted
              /\ got[w][k].loads >= 1

\* C7 witness: the small model and a language, both preloaded and then
\* evicted, have been loaded again and returned by a get.
C7_Witness ==
    /\ evicted # {}
    /\ got.asr["small"].n >= 1
    /\ asr_cache["small"] \notin evicted
    /\ \E l \in Languages : got.align[l].n >= 1 /\ align_cache[l] \notin evicted

\* C8 -- a response carries word segments only when align_mode was asked
\* for and the alignment call succeeded; then they are the alignment's own.
C8_WordsOnlyWhenAligned ==
    \A r \in Procs :
        /\ resp[r].hasWords =>
              /\ args[r].align_mode
              /\ obs[r].align = "ok"
              /\ resp[r].kind = "full"
              /\ resp[r].words = [i \in 1..Len(ret[r].words) |->
                                     ToWordSegment(ret[r].words[i])]
        /\ ~resp[r].hasWords => resp[r].words = <<>>

\* C8 witness: a full-format response of a request without align_mode.
C8_Witness ==
    \E r \in Procs :
        /\ pc[r] = "done"
        /\ resp[r].kind = "full"
        /\ ~args[r].align_mode
        /\ resp[r].segments # <<>>
        /\ ~resp[r].hasWords

\* C9 -- a model load failure is surfaced: a request in which a load failed
\* attempted that load once, has failed with the load's error, and the
\* engine returned nothing.
C9_LoadFailureSurfaced ==
    \A r \in Procs :
        obs[r].loadFailed # {} =>
            /\ obs[r].asrTries <= 1 /\ obs[r].alignTries <= 1
            /\ pc[r] = "failed"
            /\ err[r] = obs[r].raised
            /\ ret[r] = NoRet

\* C10 -- only resource-exhaustion failures evict: a request that ended
\* without its decode or alignment call raising a RuntimeError has not
\* called clean(), and the caches hold what they held when it started plus
\* at most the entries it loaded for its own model and language.
C10_OnlyResourceFailuresEvict ==
    \A r \in Procs :
        (Ended(r) /\ ~ResourceFailure(r)) =>
            /\ ~obs[r].cleaned
            /\ \A m \in Keys(obs[r].asr0) : asr_cache[m] = obs[r].asr0[m]
            /\ \A l \in Keys(obs[r].align0) : align_cache[l] = obs[r].align0[l]
            /\ Keys(asr_cache) \subseteq Keys(obs[r].asr0) \cup {args[r].model}
            /\ Keys(align_cache) \subseteq Keys(obs[r].align0) \cup {work[r].lang}

\* C11 -- an unsupported output format is rejected at once and without side
\* effects: a request with a format outside text/srt/full has ended with the
\* ValueError of the format match, no library call was made or failed, no
\* model was loaded, no separated file was written, and both caches are as
\* they were when the request started.
C11_UnsupportedFormatNoEffects ==
    \A r \in Procs :
        (Ended(r) /\ args[r].format \notin ResultFormats) =>
            /\ pc[r] = "failed"
            /\ err[r] = Raise("ValueError", "format")
            /\ obs[r].raised = NoErr
            /\ obs[r].asrTries = 0 /\ obs[r].alignTries = 0
            /\ ~obs[r].sepMade
            /\ ~obs[r].cleaned
            /\ work[r] = NoWork
            /\ asr_cache = obs[r].asr0
            /\ align_cache = obs[r].align0

\* a request that started after a clean() had emptied the caches
AfterEviction(r) == evicted # {} /\ pc[r] # "idle"

\* C12 -- the process stays usable after a resource-exhaustion failure: the
\* request that evicted had a language hint, and a later request with a
\* language hint and a supported format in which no call raised has loaded
\* what the caches lacked (one load each), and has ended with a response of
\* the requested format, with the words of a successful alignment.
C12_UsableAfterEviction ==
    \A r \in Procs :
        /\ obs[r].cleaned => args[r].language \in Languages
        /\ (/\ Ended(r)
            /\ AfterEviction(r)
            /\ args[r].language \in Languages
            /\ args[r].format \in ResultFormats
            /\ obs[r].raised = NoErr) =>
              /\ pc[r] = "done"
              /\ resp[r].kind = args[r].format
              /\ obs[r].asrTries = (IF obs[r].asr0[args[r].model] = NoInst THEN 1 ELSE 0)
              /\ asr_cache[args[r].model] # NoInst
              /\ asr_cache[args[r].model] \notin evicted
              /\ work[r].asr = asr_cache[args[r].model]
              /\ args[r].align_mode =>
                    /\ obs[r].align = "ok"
                    /\ obs[r].alignTries =
                          (IF obs[r].align0[args[r].language] = NoInst THEN 1 ELSE 0)
                    /\ align_cache[args[r].language] # NoInst
                    /\ align_cache[args[r].language] \notin evicted
                    /\ resp[r].hasWords = (args[r].format = "full" /\ ret[r].words # <<>>)

\* C12 witness: a request that started with both caches emptied by an
\* eviction reloaded its model and its language and returned a full
\* response with words.
C12_Witness ==
    \E r \in Procs :
        /\ pc[r] = "done"
        /\ evicted # {}
        /\ Keys(obs[r].asr0) = {} /\ Keys(obs[r].align0) = {}
        /\ obs[r].asrTries = 1 /\ obs[r].alignTries = 1
        /\ resp[r].kind = "full" /\ resp[r].hasWords

Range(seq) == {seq[i] : i \in 1..Len(seq)}

\* construction has completed and produced an engine
Constructed == phase \in {"serving", "down"}

\* every load of the plan was made and none failed
AllLoadsMade ==
    /\ bootPlan = <<>>
    /\ sep_loaded
    /\ nextInst = 1 + Len(LanguageValues) + Len(ModelsToLoad(init_asr_models))

\* C13 as stated -- after a successful construction every language has an
\* alignment entry, the separation model is loaded and the ASR cache holds
\* exactly the models of the preload list, the small model when no list is
\* given; an engine exists only when no load failed.
C13_PreloadAsStated ==
    /\ phase = "serving" =>
          /\ Keys(align_cache) = Languages
          /\ sep_loaded
          /\ Keys(asr_cache) = (IF init_asr_models.given
                                THEN Range(init_asr_models.models) ELSE {"small"})
    /\ Constructed => AllLoadsMade
    /\ phase = "boot_failed" => (bootPlan # <<>> /\ nreq = 0)

\* C13 amended -- as stated, except that the small model is preloaded also
\* when the list given is empty.
C13_StartupPreload ==
    /\ phase = "serving" =>
          /\ Keys(align_cache) = Languages
          /\ sep_loaded
          /\ Keys(asr_cache) =
                (IF init_asr_models.given /\ init_asr_models.models # <<>>
                 THEN Range(init_asr_models.models) ELSE {"small"})
    /\ Constructed => AllLoadsMade
    /\ phase = "boot_failed" => (bootPlan # <<>> /\ nreq = 0)

\* C13 witness: construction with the list [medium, turbo] has completed.
C13_Witness ==
    /\ phase = "serving"
    /\ init_asr_models = ListOf(<<"medium", "turbo">>)
    /\ Keys(asr_cache) = {"medium", "turbo"}

\* the characters of a str, trimmed: no space at either end
Trimmed(s) == s = <<>> \/ (Head(s) # Space /\ s[Len(s)] # Space)

\* C14 -- subtitle-style numbering: in every srt or full response the
\* segment list has one entry per segment the engine returned, in order, the
\* i-th numbered i and carrying the i-th segment's trimmed text and its
\* start and end; srt and full thus give the same list for the same input.
C14_SrtNumbering ==
    \A r \in Procs :
        (pc[r] = "done" /\ resp[r].kind \in {"srt", "full"}) =>
            /\ Len(resp[r].segments) = Len(ret[r].segs)
            /\ \A i \in 1..Len(ret[r].segs) :
                  /\ resp[r].segments[i].number = i
                  /\ resp[r].segments[i].text = Strip(ret[r].segs[i].text)
                  /\ Trimmed(resp[r].segments[i].text)
                  /\ resp[r].segments[i].start = ret[r].segs[i].start
                  /\ resp[r].segments[i].end = ret[r].segs[i].end

\* C14 witness: an srt response for the two segments " hi " and "there".
C14_Witness ==
    \E r \in Procs :
        /\ pc[r] = "done"
        /\ resp[r].kind = "srt"
        /\ ret[r].segs = <<SegHi, SegThere>>
        /\ resp[r].segments[1].text = <<"h", "i">>
        /\ resp[r].segments[2].number = 2

\* C15 -- text formatting: a text response is the segments' texts, each
\* trimmed, joined in order by single spaces, and trimmed; " hi ", "there"
\* gives "hi there" and the empty list gives the empty string.
C15_TextJoin ==
    \A r \in Procs :
        (pc[r] = "done" /\ resp[r].kind = "text") =>
            /\ resp[r].text =
                  Strip(Join([i \in 1..Len(ret[r].segs) |-> Strip(ret[r].segs[i].text)]))
            /\ Trimmed(resp[r].text)
            /\ ret[r].segs = <<SegHi, SegThere>> =>
                  resp[r].text = <<"h", "i", " ", "t", "h", "e", "r", "e">>
            /\ ret[r].segs = <<SegHi, SegHi>> =>
                  resp[r].text = <<"h", "i", " ", "h", "i">>
            /\ ret[r].segs = <<>> => resp[r].text = <<>>

\* C15 witness: a text response for the segments " hi " and "there".
C15_Witness ==
    \E r \in Procs :
        /\ pc[r] = "done"
        /\ resp[r].kind = "text"
        /\ ret[r].segs = <<SegHi, SegThere>>
        /\ resp[r].text = <<"h", "i", " ", "t", "h", "e", "r", "e">>

\* a step that removes an entry from one of the caches
EntryRemoved ==
    \/ \E m \in Models : asr_cache[m] # NoInst /\ asr_cache'[m] = NoInst
    \/ \E l \in LanguageCodes : align_cache[l] # NoInst /\ align_cache'[l] = NoInst

\* the step of the shutdown hook
ShutdownStep == phase = "serving" /\ phase' = "down"

\* a step through an `except RuntimeError` branch of _transcribe or _align
ResourceBranchStep(r) ==
    /\ pc[r] \in {"decode", "load_align", "align"}
    /\ pc'[r] = "failed"
    /\ err'[r].type = "RuntimeError"

\* C16 -- the shutdown hook evicts: the application goes down from the
\* serving phase in one step that leaves both caches empty, nothing runs
\* after it, and no other step removes a cache entry except the
\* RuntimeError branches of the decode and alignment steps.
C16_ShutdownEvicts ==
    /\ [](phase = "down" => CachesEmpty)
    /\ [][phase' = "down" => (phase = "serving" /\ \A r \in Procs : pc[r] = "idle")]_vars
    /\ [][phase # "down"]_vars
    /\ [][EntryRemoved => (ShutdownStep \/ \E r \in Procs : ResourceBranchStep(r))]_vars

\* C16 witness: the application went down after serving a request, and the
\* shutdown evicted the preloaded handles.
C16_Witness ==
    /\ phase = "down"
    /\ nreq >= 1
    /\ {1, 2, 3} \subseteq evicted
    /\ \A r \in Procs : ~obs[r].cleaned

\* the phase of the per-request state machine a program position belongs to
PhaseOf(p) ==
    CASE p \in {"separate", "load_audio", "get_asr", "load_asr", "read_asr"} -> "Loading"
      [] p = "decode" -> "Decoding"
      [] p \in {"get_align", "load_align", "read_align", "align"} -> "Aligning"
      [] p = "format" -> "Formatting"
      [] p = "done" -> "Done"
      [] p = "failed" -> "Failed"
      [] OTHER -> "Idle"

\* the phase in which the error of a failed request was raised
FailedFrom(e) ==
    CASE e.at \in {"separate", "load_audio", "load_asr", "read_asr"} -> "Loading"
      [] e.at \in {"log", "decode"} -> "Decoding"
      [] e.at \in {"load_align", "align"} -> "Aligning"
      [] OTHER -> "Formatting"

\* C17 -- per-request state machine, for the supported formats: Aligning is
\* entered only with align_mode and after a successful decode, Formatting
\* only with the engine's return value at hand; a request is Failed only
\* from Loading, from Decoding or from the resource-exhaustion branch of
\* Aligning, so a request that reached Formatting ends in Done.
C17_RequestStateMachine ==
    \A r \in Procs :
        args[r].format \in ResultFormats =>
            /\ PhaseOf(pc[r]) = "Aligning" =>
                   args[r].align_mode /\ work[r].lang # NoLanguage
            /\ PhaseOf(pc[r]) \in {"Formatting", "Done"} => ret[r].kind # "none"
            /\ PhaseOf(pc[r]) = "Failed" =>
                   \/ FailedFrom(err[r]) \in {"Loading", "Decoding"}
                   \/ FailedFrom(err[r]) = "Aligning" /\ err[r].type = "RuntimeError"

\* the cache a load of kind `which` stores into
CacheOf(which) == IF which = "asr" THEN asr_cache ELSE align_cache

\* C18 -- no reload while an entry exists: the load the preload is about to
\* make, and the load a request is about to make, is for a key its cache
\* does not hold; no key is loaded twice without a clean() in between.
C18_NoReloadWhileCached ==
    /\ (phase = "boot" /\ bootPlan # <<>> /\ Head(bootPlan).what # "sep") =>
           CacheOf(Head(bootPlan).what)[Head(bootPlan).key] = NoInst
    /\ \A r \in Procs :
           /\ pc[r] = "load_asr" => asr_cache[args[r].model] = NoInst
           /\ pc[r] = "load_align" => align_cache[work[r].lang] = NoInst
    /\ \A m \in Models : got.asr[m].loads <= 1
    /\ \A l \in LanguageCodes : got.align[l].loads <= 1

\* two callers are both inside the load of the same key
LoadsInFlight(r1, r2) ==
    \/ /\ pc[r1] = "load_asr" /\ pc[r2] = "load_asr"
       /\ args[r1].model = args[r2].model
    \/ /\ pc[r1] = "load_align" /\ pc[r2] = "load_align"
       /\ work[r1].lang = work[r2].lang

\* C19 -- no concurrent double load: two callers are never both loading the
\* same key; between two evictions a key is loaded at most once and every
\* get of it returns the same handle.
C19_NoConcurrentDoubleLoad ==
    /\ \A r1, r2 \in Procs : r1 # r2 => ~LoadsInFlight(r1, r2)
    /\ \A w \in {"asr", "align"} : \A k \in GotKeys[w] :
           got[w][k].loads <= 1 /\ got[w][k].same

\* C20 -- eviction does not interleave with a get-or-load in flight: no
\* get-or-load fails on its read of the map (a KeyError), neither the one of
\* the ASR model, which fails the request, nor the one of the alignment
\* model, which the alignment step swallows.
C20_NoEvictionDuringGet ==
    \A r \in Procs :
        /\ err[r].type # "KeyError"
        /\ obs[r].align # "key_error"
        /\ pc[r] = "read_asr" => ~KeyError(asr_cache, args[r].model)
        /\ pc[r] = "read_align" => ~KeyError(align_cache, work[r].lang)

\* C21 -- successful alignment replaces the segments: when the alignment
\* step returned a result, the engine returns a pair; its first component
\* has one segment per segment of the alignment output, in order, with that
\* segment's start and end and its text stripped, and its second component
\* is the alignment output's word segments.
C21_AlignmentReplaces ==
    \A r \in Procs :
        (obs[r].align = "ok" /\ Ended(r)) =>
            LET a == work[r].align_result IN
            /\ a.some
            /\ ret[r].kind = "tuple"
            /\ Len(ret[r].segs) = Len(a.segments)
            /\ \A i \in 1..Len(a.segments) :
                   /\ ret[r].segs[i].start = a.segments[i].start
                   /\ ret[r].segs[i].end = a.segments[i].end
                   /\ ret[r].segs[i].text = Strip(a.segments[i].text)
            /\ ret[r].words = a.word_segments

\* C21 witness: an alignment whose output has two segments, one of them with
\* text to strip, and a word; what is returned is not the output as it came.
C21_Witness ==
    \E r \in Procs :
        /\ Ended(r)
        /\ obs[r].align = "ok"
        /\ work[r].align_result.segments = <<SegHi, SegThere>>
        /\ work[r].align_result.word_segments = <<WordHi>>
        /\ ret[r].segs # work[r].align_result.segments

\* C22 -- cache keys stay inside the known identity sets: every key of the
\* ASR cache is a member of Model, every key of the alignment cache a member
\* of Language, also when the alignment step has loaded the model of the
\* language the decode step reported.
C22_KeysKnown ==
    /\ Keys(asr_cache) \subseteq Models
    /\ Keys(align_cache) \subseteq Languages
    /\ \A r \in Procs : PhaseOf(pc[r]) = "Aligning" => work[r].lang \in Languages

\* C22 witness: after an eviction the alignment step has loaded, and read,
\* the model of the language the decode step reported, and the ASR model
\* was loaded lazily too.
C22_Witness ==
    \E r \in Procs :
        /\ pc[r] = "align"
        /\ obs[r].alignTries = 1
        /\ obs[r].asrTries = 1
        /\ Keys(align_cache) = {work[r].lang}
        /\ Keys(asr_cache) = {args[r].model}

\* the handles given to the pipelines loaded so far
Loaded == 1..(nextInst - 1)

\* C23 -- entries live until explicit eviction: every pipeline that was
\* stored in a cache is still stored there or was removed by a clean(); a
\* load, a get, a decode, an alignment or a formatting step neither removes
\* nor replaces an entry.
C23_EntriesLiveUntilEviction ==
    /\ Loaded = Handles(asr_cache) \cup Handles(align_cache) \cup evicted
    /\ \A m \in Models : got.asr[m].loads = 0 <=> asr_cache[m] = NoInst
    /\ \A l \in LanguageCodes : got.align[l].loads = 0 <=> align_cache[l] = NoInst

\* a step in which the load of an ASR model raised
AsrLoadFailed(r) == pc[r] = "load_asr" /\ pc'[r] = "failed"

\* a step in which the load of an alignment model raised
AlignLoadFailed(r) == pc[r] = "load_align" /\ pc'[r] \in {"failed", "format"}

\* a step in which a load of the preload raised
PreloadFailed == phase = "boot" /\ phase' = "boot_failed"

====
